---- MODULE Spec2Model ----
(***************************************************************************)
(* Model of src/app.py (simFDS web front end).                             *)
(*                                                                         *)
(* A text is a sequence of one-character strings.  The pure functions      *)
(* _reorder_statespace_dot and build_dependency_dot are operators that     *)
(* work on such texts the way the Python code works on str: splitlines,    *)
(* strip, the regular expressions and "\n".join are all computed           *)
(* character by character.  compute_system_artifacts is a state machine    *)
(* over the files of its temporary directory.                              *)
(***************************************************************************)
EXTENDS Integers, Sequences, FiniteSets, TLC

VARIABLES
    dot_source,   \* _reorder_statespace_dot: argument
    reordered,    \* _reorder_statespace_dot(dot_source)
    reordered2,   \* _reorder_statespace_dot(reordered)
    rpc,          \* "idle" | "start" | "once" | "twice"
    system_text,  \* build_dependency_dot: argument
    dep_dot_src,  \* build_dependency_dot(system_text)
    dpc,          \* "idle" | "start" | "done"
    \* compute_system_artifacts
    apc,                  \* position in compute_system_artifacts
    simfds_exists,        \* SIMFDS_PATH.exists()
    tmpdir,               \* the files of the temporary directory: name -> content
    raw_dot,              \* local raw_dot
    statespace_svg,       \* the four results
    depgraph_svg,
    limitcycles_text,
    statespace_dot_text,
    sim_rc,               \* exit code of simFDS, NotRun before it ran
    ss_rc,                \* exit code of dot on the state graph
    dep_rc,               \* exit code of dot on the dependency graph
    ss_render_input       \* the text dot read to draw the state graph

(***************************************************************************)
(* Characters                                                              *)
(***************************************************************************)
NL == "\n"
QUOTE == "\""
SPACE == " "

\* the whitespace of str.strip() and of \s that the alphabet contains
IsSpace(c) == c = SPACE

(***************************************************************************)
(* str helpers                                                             *)
(***************************************************************************)
RECURSIVE SplitFrom(_, _, _, _)
SplitFrom(t, i, cur, acc) ==
    IF i > Len(t)
    THEN IF cur = <<>> THEN acc ELSE Append(acc, cur)
    ELSE IF t[i] = NL
         THEN SplitFrom(t, i + 1, <<>>, Append(acc, cur))
         ELSE SplitFrom(t, i + 1, Append(cur, t[i]), acc)

\* str.splitlines(): a line ends at each "\n"; a last piece without "\n"
\* is a line only when it is not empty
splitlines(t) == SplitFrom(t, 1, <<>>, <<>>)

RECURSIVE join(_)
\* "\n".join(lines)
join(lines) ==
    IF lines = <<>> THEN <<>>
    ELSE IF Len(lines) = 1 THEN lines[1]
    ELSE lines[1] \o <<NL>> \o join(Tail(lines))

RECURSIVE lstrip(_)
lstrip(s) == IF s # <<>> /\ IsSpace(s[1]) THEN lstrip(Tail(s)) ELSE s

RECURSIVE rstrip(_)
rstrip(s) ==
    IF s # <<>> /\ IsSpace(s[Len(s)]) THEN rstrip(SubSeq(s, 1, Len(s) - 1)) ELSE s

\* str.strip()
strip(s) == rstrip(lstrip(s))

(***************************************************************************)
(* edge_pattern = re.compile(r'"([01 ]+)"\s*->\s*"[01 ]+"')                *)
(***************************************************************************)
IsLabelChar(c) == c \in {"0", "1", SPACE}

RECURSIVE SkipLabel(_, _)
\* first index >= i that is not in [01 ]
SkipLabel(s, i) ==
    IF i <= Len(s) /\ IsLabelChar(s[i]) THEN SkipLabel(s, i + 1) ELSE i

RECURSIVE SkipSpace(_, _)
\* first index >= i that is not \s
SkipSpace(s, i) ==
    IF i <= Len(s) /\ IsSpace(s[i]) THEN SkipSpace(s, i + 1) ELSE i

CharAt(s, i) == IF i >= 1 /\ i <= Len(s) THEN s[i] ELSE ""

\* the pattern matches starting exactly at index i.  Every repetition is
\* followed by a character outside its class, so the greedy run is the only
\* candidate and no backtracking is needed.
EdgeMatchAt(s, i) ==
    LET j == SkipLabel(s, i + 1)        \* end of source label + 1
        a == SkipSpace(s, j + 1)        \* position of '-'
        q == SkipSpace(s, a + 2)        \* position of opening quote of dest
        e == SkipLabel(s, q + 1)        \* end of dest label + 1
    IN  /\ CharAt(s, i) = QUOTE
        /\ j > i + 1
        /\ CharAt(s, j) = QUOTE
        /\ CharAt(s, a) = "-"
        /\ CharAt(s, a + 1) = ">"
        /\ CharAt(s, q) = QUOTE
        /\ e > q + 1
        /\ CharAt(s, e) = QUOTE

\* edge_pattern.search(line): is there a match
edge_search(line) == \E i \in 1..Len(line) : EdgeMatchAt(line, i)

\* m.group(1) of the leftmost match
edge_group1(line) ==
    LET i == CHOOSE k \in 1..Len(line) :
                 /\ EdgeMatchAt(line, k)
                 /\ \A h \in 1..(k - 1) : ~EdgeMatchAt(line, h)
    IN  SubSeq(line, i + 1, SkipLabel(line, i + 1) - 1)

(***************************************************************************)
(* key_for_line                                                            *)
(***************************************************************************)
\* raw.replace(" ", "")
RemoveSpaces(raw) == SelectSeq(raw, LAMBDA c : c # SPACE)

\* bits.count("1")
CountOnes(bits) == Len(SelectSeq(bits, LAMBDA c : c = "1"))

RECURSIVE IntBase2(_)
\* int(bits, 2) for a non-empty string of 0/1 (Python ints are unbounded)
IntBase2(bits) ==
    IF bits = <<>> THEN 0
    ELSE 2 * IntBase2(SubSeq(bits, 1, Len(bits) - 1))
         + (IF bits[Len(bits)] = "1" THEN 1 ELSE 0)

key_for_line_ValueOnly(line) ==
    IF ~edge_search(line) THEN <<0, 0>>
    ELSE LET bits == RemoveSpaces(edge_group1(line))
         IN  <<0, IF bits # <<>> THEN IntBase2(bits) ELSE 0>>

key_for_line(line) ==
    IF ~edge_search(line) THEN <<0, 0>>
    ELSE LET bits == RemoveSpaces(edge_group1(line))
             weight == CountOnes(bits)
             value == IF bits # <<>> THEN IntBase2(bits) ELSE 0
         IN  <<weight, value>>

\* Python's order on 2-tuples of ints
TupleLess(a, b) == a[1] < b[1] \/ (a[1] = b[1] /\ a[2] < b[2])
TupleLeq(a, b) == ~TupleLess(b, a)

(***************************************************************************)
(* sorted(edge_lines, key=key_for_line): a stable sort.  The result of a   *)
(* stable sort is unique, so insertion after the last not-greater element  *)
(* computes what Timsort computes.                                         *)
(***************************************************************************)
RECURSIVE InsertStable(_, _)
InsertStable(sorted, x) ==
    IF sorted = <<>> THEN <<x>>
    ELSE LET last == sorted[Len(sorted)]
         IN  IF TupleLeq(key_for_line(last), key_for_line(x))
             THEN Append(sorted, x)
             ELSE Append(InsertStable(SubSeq(sorted, 1, Len(sorted) - 1), x), last)

RECURSIVE SortFrom(_, _, _)
SortFrom(xs, i, acc) ==
    IF i > Len(xs) THEN acc ELSE SortFrom(xs, i + 1, InsertStable(acc, xs[i]))

sorted_by_key(xs) == SortFrom(xs, 1, <<>>)

(***************************************************************************)
(* _reorder_statespace_dot                                                 *)
(***************************************************************************)
RECURSIVE ClassifyFrom(_, _, _)
\* the for loop over lines; st = [edge_lines, prefix_lines, closing_line]
ClassifyFrom(lines, i, st) ==
    IF i > Len(lines) THEN st
    ELSE LET line == lines[i]
         IN  IF strip(line) = <<"}">>
             THEN ClassifyFrom(lines, i + 1, [st EXCEPT !.closing_line = line])
             ELSE IF edge_search(line)
                  THEN ClassifyFrom(lines, i + 1,
                           [st EXCEPT !.edge_lines = Append(@, line)])
                  ELSE ClassifyFrom(lines, i + 1,
                           [st EXCEPT !.prefix_lines = Append(@, line)])

Classify(lines) ==
    ClassifyFrom(lines, 1,
        [edge_lines |-> <<>>, prefix_lines |-> <<>>, closing_line |-> <<>>])

reorder_EdgesFirst(src) ==
    LET st == Classify(splitlines(src))
        new_lines == sorted_by_key(st.edge_lines) \o st.prefix_lines
    IN  join(IF st.closing_line # <<>>
             THEN Append(new_lines, st.closing_line)
             ELSE new_lines)

reorder_EmptyWhenNoEdges(src) ==
    LET st == Classify(splitlines(src))
        new_lines == st.prefix_lines \o sorted_by_key(st.edge_lines)
    IN  IF st.edge_lines = <<>> THEN <<>>
        ELSE join(IF st.closing_line # <<>>
                  THEN Append(new_lines, st.closing_line)
                  ELSE new_lines)

reorder_statespace_dot(src) ==
    LET st == Classify(splitlines(src))
        new_lines == st.prefix_lines \o sorted_by_key(st.edge_lines)
    IN  join(IF st.closing_line # <<>>
             THEN Append(new_lines, st.closing_line)
             ELSE new_lines)

(***************************************************************************)
(* _subscript_label                                                        *)
(***************************************************************************)
Digits == {"0", "1", "2", "3", "4", "5", "6", "7", "8", "9"}
IsDigit(c) == c \in Digits

\* re.fullmatch(r"x(\d+)", var_name)
FullMatchVar(s) ==
    /\ Len(s) >= 2
    /\ s[1] = "x"
    /\ \A i \in 2..Len(s) : IsDigit(s[i])

subs ==
    [d \in Digits |->
        CASE d = "0" -> "₀" [] d = "1" -> "₁" [] d = "2" -> "₂"
          [] d = "3" -> "₃" [] d = "4" -> "₄" [] d = "5" -> "₅"
          [] d = "6" -> "₆" [] d = "7" -> "₇" [] d = "8" -> "₈"
          [] d = "9" -> "₉"]

subscript_label(var_name) ==
    IF ~FullMatchVar(var_name) THEN var_name
    ELSE <<"x">> \o [i \in 1..(Len(var_name) - 1) |-> subs[var_name[i + 1]]]

(***************************************************************************)
(* assign_re = re.compile(r"^\s*(x\d+)\s*=")                               *)
(* var_re    = re.compile(r"\b(x\d+)\b")                                   *)
(***************************************************************************)
RECURSIVE SkipDigits(_, _)
\* first index >= i that is not \d
SkipDigits(s, i) ==
    IF i <= Len(s) /\ IsDigit(s[i]) THEN SkipDigits(s, i + 1) ELSE i

\* \w for the characters of the alphabet: letters, digits, underscore
IsWordChar(c) == c \in Digits \cup {"x", "a", "N", "_"}

\* assign_re.match(line): [matched, target], target = m.group(1)
assign_match(line) ==
    LET i == SkipSpace(line, 1)
        j == SkipDigits(line, i + 1)
        k == SkipSpace(line, j)
    IN  IF CharAt(line, i) = "x" /\ j > i + 1 /\ CharAt(line, k) = "="
        THEN [matched |-> TRUE, target |-> SubSeq(line, i, j - 1)]
        ELSE [matched |-> FALSE, target |-> <<>>]

RECURSIVE IndexOf(_, _, _)
\* index of the first c at or after i, 0 when there is none
IndexOf(s, c, i) ==
    IF i > Len(s) THEN 0
    ELSE IF s[i] = c THEN i ELSE IndexOf(s, c, i + 1)

\* line.split("=", 1)[1]
rhs_of(line) == SubSeq(line, IndexOf(line, "=", 1) + 1, Len(line))

RECURSIVE FindAllFrom(_, _, _)
\* var_re.findall(rhs): left to right, non-overlapping.  \b before the x
\* and after the digits; the digit run is followed by a non-digit, so only
\* the whole run can end at a word boundary.
FindAllFrom(rhs, i, acc) ==
    IF i > Len(rhs) THEN acc
    ELSE LET j == SkipDigits(rhs, i + 1)
         IN  IF /\ rhs[i] = "x"
                /\ (i = 1 \/ ~IsWordChar(rhs[i - 1]))
                /\ j > i + 1
                /\ (j > Len(rhs) \/ ~IsWordChar(rhs[j]))
             THEN FindAllFrom(rhs, j, Append(acc, SubSeq(rhs, i, j - 1)))
             ELSE FindAllFrom(rhs, i + 1, acc)

var_findall(rhs) == FindAllFrom(rhs, 1, <<>>)

(***************************************************************************)
(* build_dependency_dot                                                    *)
(***************************************************************************)
RECURSIVE AddRefs_SelfLoops(_, _, _, _)
AddRefs_SelfLoops(g, target, found, i) ==
    IF i > Len(found) THEN g
    ELSE AddRefs_SelfLoops(
             [nodes |-> g.nodes \cup {found[i]},
              edges |-> g.edges \cup {<<target, found[i]>>}],
             target, found, i + 1)

RECURSIVE AddRefs_NoNodes(_, _, _, _)
AddRefs_NoNodes(g, target, found, i) ==
    IF i > Len(found) THEN g
    ELSE LET var == found[i]
         IN  AddRefs_NoNodes(
                 [nodes |-> g.nodes,
                  edges |-> IF var # target
                            THEN g.edges \cup {<<target, var>>}
                            ELSE g.edges],
                 target, found, i + 1)

RECURSIVE AddRefs(_, _, _, _)
\* for var in var_re.findall(rhs): nodes.add(var); edges.add((target, var))
\* unless var == target
AddRefs(g, target, found, i) ==
    IF i > Len(found) THEN g
    ELSE LET var == found[i]
         IN  AddRefs([nodes |-> g.nodes \cup {var},
                      edges |-> IF var # target
                                THEN g.edges \cup {<<target, var>>}
                                ELSE g.edges],
                     target, found, i + 1)

RECURSIVE ScanLines(_, _, _)
\* for line in system_text.splitlines(): ...
ScanLines(lines, i, g) ==
    IF i > Len(lines) THEN g
    ELSE LET line == strip(lines[i])
             m == assign_match(line)
         IN  IF line = <<>> \/ line[1] = "#"
             THEN ScanLines(lines, i + 1, g)
             ELSE IF ~m.matched
                  THEN ScanLines(lines, i + 1, g)
                  ELSE ScanLines(lines, i + 1,
                           AddRefs([g EXCEPT !.nodes = @ \cup {m.target}],
                                   m.target, var_findall(rhs_of(line)), 1))

\* code point order of the characters that occur in variable names
Code(c) ==
    CASE c = "0" -> 48 [] c = "1" -> 49 [] c = "2" -> 50 [] c = "3" -> 51
      [] c = "4" -> 52 [] c = "5" -> 53 [] c = "6" -> 54 [] c = "7" -> 55
      [] c = "8" -> 56 [] c = "9" -> 57 [] c = "x" -> 120

RECURSIVE StrLess(_, _)
\* a < b on Python str
StrLess(a, b) ==
    IF b = <<>> THEN FALSE
    ELSE IF a = <<>> THEN TRUE
    ELSE IF a[1] # b[1] THEN Code(a[1]) < Code(b[1])
    ELSE StrLess(Tail(a), Tail(b))

\* (u1, v1) < (u2, v2) on Python tuples of str
EdgeLess(e, f) == StrLess(e[1], f[1]) \/ (e[1] = f[1] /\ StrLess(e[2], f[2]))

RECURSIVE SortedNodes(_)
\* sorted(nodes)
SortedNodes(S) ==
    IF S = {} THEN <<>>
    ELSE LET m == CHOOSE x \in S : \A y \in S \ {x} : StrLess(x, y)
         IN  <<m>> \o SortedNodes(S \ {m})

RECURSIVE SortedEdges(_)
\* sorted(edges)
SortedEdges(S) ==
    IF S = {} THEN <<>>
    ELSE LET m == CHOOSE x \in S : \A y \in S \ {x} : EdgeLess(x, y)
         IN  <<m>> \o SortedEdges(S \ {m})

\* The literal pieces of the emitted text are kept as single elements; the
\* variable names and labels between them are spelled out.
HeaderLines ==
    << <<"digraph dep {">>,
       <<"  rankdir=LR;">>,
       <<"  node [shape=ellipse, fontname=\"Monaco\", fontsize=11];">>,
       <<"  edge [fontname=\"Monaco\", fontsize=9];">> >>

\* f'  "{v}" [label="{label}"];'
NodeLine(v) ==
    <<"  \"">> \o v \o <<"\" [label=\"">> \o subscript_label(v) \o <<"\"];">>

\* f'  "{u}" -> "{v}";'
EdgeDeclLine(u, v) == <<"  \"">> \o u \o <<"\" -> \"">> \o v \o <<"\";">>

EmitDot(g) ==
    LET ns == SortedNodes(g.nodes)
        es == SortedEdges(g.edges)
    IN  join(HeaderLines
             \o [i \in 1..Len(ns) |-> NodeLine(ns[i])]
             \o [i \in 1..Len(es) |-> EdgeDeclLine(es[i][1], es[i][2])]
             \o << <<"}">> >>)

build_dependency_dot_AlwaysEmit(text) ==
    EmitDot(ScanLines(splitlines(text), 1, [nodes |-> {}, edges |-> {}]))

build_dependency_dot(text) ==
    LET g == ScanLines(splitlines(text), 1, [nodes |-> {}, edges |-> {}])
    IN  IF g.edges = {} /\ g.nodes = {} THEN <<>> ELSE EmitDot(g)

(***************************************************************************)
(* Inputs of the dependency extractor                                      *)
(***************************************************************************)
MaxTokens == 4
MaxEquations == 2

DepTokens ==
    { <<"x", "1">>, <<"x", "2">>, <<"1">>, <<"=">>, <<SPACE>>, <<"#">>,
      <<NL>>, <<"a">> }

RECURSIVE Flatten(_)
Flatten(ss) == IF ss = <<>> THEN <<>> ELSE ss[1] \o Flatten(Tail(ss))

\* every text of up to MaxTokens tokens
TokenTexts ==
    { Flatten(ts) : ts \in UNION { [1..n -> DepTokens] : n \in 0..MaxTokens } }

EquationLines ==
    { <<"x", "1", "=", "x", "2">>,                          \* x1=x2
      <<"x", "2", SPACE, "=", SPACE, "x", "1", "+", "x", "3">>, \* x2 = x1+x3
      <<"x", "3", "=", "x", "2", "+", "x", "1">>,           \* x3=x2+x1
      <<"x", "1", "=", "x", "1", "+", "x", "2", "+", "x", "2">>, \* x1=x1+x2+x2
      <<"x", "1", "0", "=", "x", "2", "x", "1", "+", "x", "9">>, \* x10=x2x1+x9
      <<"x", "2", "=", "1">>,                               \* x2=1
      <<"#", "x", "4", "=", "x", "5">>,                     \* #x4=x5
      <<"N", "=", "x", "6">> }                              \* N=x6

\* up to MaxEquations lines of a system
EquationTexts ==
    { join(ls) : ls \in UNION { [1..n -> EquationLines] : n \in 1..MaxEquations } }

DepInputs == TokenTexts \cup EquationTexts

(***************************************************************************)
(* Inputs of the canonicalizer                                             *)
(***************************************************************************)
MaxLines == 3

\* "<src>"-><dst>  with optional blank before the arrow
EdgeLine(srcLabel, gap) ==
    <<QUOTE>> \o srcLabel \o <<QUOTE>> \o gap \o <<"-", ">", QUOTE, "0", QUOTE>>

ReorderLines ==
    { <<>>,                                   \* empty line
      <<"}">>,                                \* closing line
      <<SPACE, "}">>,                         \* closing line, indented
      <<"g", "{">>,                           \* header
      <<QUOTE, "1", QUOTE, "-", ">", QUOTE>>, \* edge without closing quote
      EdgeLine(<<"0", "1">>, <<>>),           \* key (1,1)
      EdgeLine(<<"1", SPACE, "0", SPACE, "0">>, <<SPACE>>), \* key (1,4)
      EdgeLine(<<"1", "0">>, <<>>),           \* key (1,2)
      EdgeLine(<<"1", "1">>, <<>>),           \* key (2,3)
      EdgeLine(<<"1", "0", "0">>, <<>>),      \* key (1,4), another line
      EdgeLine(<<SPACE>>, <<>>) }             \* blank label, key (0,0)

LineSeqs == UNION { [1..n -> ReorderLines] : n \in 0..MaxLines }

\* every text over these lines: the lines joined, with or without a final "\n"
ReorderInputs ==
    { join(ls) \o (IF nl THEN <<NL>> ELSE <<>>) : ls \in LineSeqs, nl \in BOOLEAN }

rvars == <<dot_source, reordered, reordered2, rpc>>
dvars == <<system_text, dep_dot_src, dpc>>
avars == <<apc, simfds_exists, tmpdir, raw_dot, statespace_svg, depgraph_svg,
           limitcycles_text, statespace_dot_text, sim_rc, ss_rc, dep_rc,
           ss_render_input>>
vars == <<rvars, dvars, avars>>

\* no exit code yet; an exit code rc is kept as <<rc>>
NotRun == <<>>

ArtifactsIdle ==
    /\ apc = "idle"
    /\ simfds_exists = FALSE
    /\ tmpdir = <<>>
    /\ raw_dot = <<>>
    /\ statespace_svg = <<>>
    /\ depgraph_svg = <<>>
    /\ limitcycles_text = <<>>
    /\ statespace_dot_text = <<>>
    /\ sim_rc = NotRun
    /\ ss_rc = NotRun
    /\ dep_rc = NotRun
    /\ ss_render_input = <<>>

ReorderIdle ==
    /\ dot_source = <<>>
    /\ reordered = <<>>
    /\ reordered2 = <<>>
    /\ rpc = "idle"

DepIdle ==
    /\ system_text = <<>>
    /\ dep_dot_src = <<>>
    /\ dpc = "idle"

InitReorder ==
    /\ dot_source \in ReorderInputs
    /\ reordered = <<>>
    /\ reordered2 = <<>>
    /\ rpc = "start"
    /\ DepIdle
    /\ ArtifactsIdle

\* statespace_dot_text = _reorder_statespace_dot(raw_dot)
Reorder ==
    /\ rpc = "start"
    /\ reordered' = reorder_statespace_dot(dot_source)
    /\ rpc' = "once"
    /\ UNCHANGED <<dot_source, reordered2, dvars, avars>>

\* the canonicalizer applied to its own output
ReorderAgain ==
    /\ rpc = "once"
    /\ reordered2' = reorder_statespace_dot(reordered)
    /\ rpc' = "twice"
    /\ UNCHANGED <<dot_source, reordered, dvars, avars>>

NextReorder == Reorder \/ ReorderAgain

SpecReorder == InitReorder /\ [][NextReorder]_vars

InitDep ==
    /\ system_text \in DepInputs
    /\ dep_dot_src = <<>>
    /\ dpc = "start"
    /\ ReorderIdle
    /\ ArtifactsIdle

\* dep_dot_src = build_dependency_dot(system_text)
BuildDependencyDot ==
    /\ dpc = "start"
    /\ dep_dot_src' = build_dependency_dot(system_text)
    /\ dpc' = "done"
    /\ UNCHANGED <<system_text, rvars, avars>>

NextDep == BuildDependencyDot

SpecDep == InitDep /\ [][NextDep]_vars

(***************************************************************************)
(* compute_system_artifacts                                                *)
(***************************************************************************)
PDS == "system.pds"
SS_DOT == "system-statespace.dot"
SS_SVG == "system-statespace.svg"
LC_TXT == "system-limitcycles.txt"
DEP_DOT == "system-dep.dot"
DEP_SVG == "system-dep.svg"

\* path.exists()
Exists(name) == name \in DOMAIN tmpdir

\* path.write_text(content) in a directory d
WriteText(d, name, content) == (name :> content) @@ d

\* the image Graphviz draws of a description: a text that determines, and is
\* determined by, the description it was given
RenderSvg(description) == <<"<svg>">> \o description

\* what the simulation engine may leave in system-statespace.dot
RawDots ==
    { <<>>,
      join(<< <<"g", "{">>, EdgeLine(<<"1", "1">>, <<>>),
              EdgeLine(<<"0", "1">>, <<>>), <<"}">> >>) \o <<NL>>,
      join(<< <<"g", "{">>, EdgeLine(<<"0", "1">>, <<>>), <<"}">> >>) }

\* what it may leave in system-limitcycles.txt
LimitCycleReports == { <<>>, <<"0", "1", NL>> }

\* the texts submitted
SubmittedTexts ==
    { join(<< <<"x", "1", "=", "x", "2">>, <<"x", "2", "=", "x", "1">> >>),
      <<"x", "1", "=", "1">>,
      <<"N", "=", "x", "6">> }

InitArtifacts ==
    /\ ReorderIdle
    /\ system_text \in SubmittedTexts
    /\ dep_dot_src = <<>>
    /\ dpc = "idle"
    /\ apc = "start"
    /\ simfds_exists \in BOOLEAN
    /\ tmpdir = <<>>
    /\ raw_dot = <<>>
    /\ statespace_svg = <<>>
    /\ depgraph_svg = <<>>
    /\ limitcycles_text = <<>>
    /\ statespace_dot_text = <<>>
    /\ sim_rc = NotRun
    /\ ss_rc = NotRun
    /\ dep_rc = NotRun
    /\ ss_render_input = <<>>

\* pds_path.write_text(system_text)
WritePds ==
    /\ apc = "start"
    /\ tmpdir' = WriteText(tmpdir, PDS, system_text)
    /\ apc' = "simfds"
    /\ UNCHANGED <<rvars, dvars, simfds_exists, raw_dot, statespace_svg,
                   depgraph_svg, limitcycles_text, statespace_dot_text,
                   sim_rc, ss_rc, dep_rc, ss_render_input>>

\* run_command([SIMFDS_PATH, "system"]): the engine writes none, one or both
\* of its files and exits with some code; the code is not looked at
RunSimFDS ==
    /\ apc = "simfds"
    /\ simfds_exists
    /\ \E rc \in {0, 1}, wss \in BOOLEAN, ss \in RawDots,
          wlc \in BOOLEAN, lc \in LimitCycleReports :
          LET d1 == IF wss THEN WriteText(tmpdir, SS_DOT, ss) ELSE tmpdir
              d2 == IF wlc THEN WriteText(d1, LC_TXT, lc) ELSE d1
          IN  /\ tmpdir' = d2
              /\ sim_rc' = <<rc>>
    /\ apc' = "statespace"
    /\ UNCHANGED <<rvars, dvars, simfds_exists, raw_dot, statespace_svg,
                   depgraph_svg, limitcycles_text, statespace_dot_text,
                   ss_rc, dep_rc, ss_render_input>>

\* if SIMFDS_PATH.exists() is false
SkipSimFDS ==
    /\ apc = "simfds"
    /\ ~simfds_exists
    /\ apc' = "statespace"
    /\ UNCHANGED <<rvars, dvars, simfds_exists, tmpdir, raw_dot, statespace_svg,
                   depgraph_svg, limitcycles_text, statespace_dot_text,
                   sim_rc, ss_rc, dep_rc, ss_render_input>>

\* if ss_dot.exists(): raw_dot = read; statespace_dot_text = reorder(raw_dot)
ReorderStatespace ==
    /\ apc = "statespace"
    /\ Exists(SS_DOT)
    /\ raw_dot' = tmpdir[SS_DOT]
    /\ statespace_dot_text' = reorder_statespace_dot(tmpdir[SS_DOT])
    /\ apc' = "render_ss"
    /\ UNCHANGED <<rvars, dvars, simfds_exists, tmpdir, statespace_svg,
                   depgraph_svg, limitcycles_text, sim_rc, ss_rc, dep_rc,
                   ss_render_input>>

\* if ss_dot.exists() is false
NoStatespace ==
    /\ apc = "statespace"
    /\ ~Exists(SS_DOT)
    /\ apc' = "limitcycles"
    /\ UNCHANGED <<rvars, dvars, simfds_exists, tmpdir, raw_dot, statespace_svg,
                   depgraph_svg, limitcycles_text, statespace_dot_text,
                   sim_rc, ss_rc, dep_rc, ss_render_input>>

\* run_command(["dot", "-Tsvg", "-o", ss_svg, ss_dot]): dot reads the file
\* ss_dot, writes the image or not, and exits with rc;
\* if rc == 0 and ss_svg.exists(): statespace_svg = ss_svg.read_text()
RenderStatespace ==
    /\ apc = "render_ss"
    /\ \E rc \in {0, 1}, wsvg \in BOOLEAN :
          /\ ss_render_input' = tmpdir[SS_DOT]
          /\ tmpdir' = IF wsvg
                       THEN WriteText(tmpdir, SS_SVG, RenderSvg(tmpdir[SS_DOT]))
                       ELSE tmpdir
          /\ ss_rc' = <<rc>>
          /\ statespace_svg' = IF rc = 0 /\ SS_SVG \in DOMAIN tmpdir'
                               THEN tmpdir'[SS_SVG]
                               ELSE statespace_svg
    /\ apc' = "limitcycles"
    /\ UNCHANGED <<rvars, dvars, simfds_exists, raw_dot, depgraph_svg,
                   limitcycles_text, statespace_dot_text, sim_rc, dep_rc>>

\* subprocess.run raises when the dot executable cannot be started; nothing
\* in compute_system_artifacts or its callers catches it.  Leaving the with
\* block removes the temporary directory.
RenderStatespaceCannotStart ==
    /\ apc = "render_ss"
    /\ apc' = "raised"
    /\ tmpdir' = <<>>
    /\ UNCHANGED <<rvars, dvars, simfds_exists, raw_dot, statespace_svg,
                   depgraph_svg, limitcycles_text, statespace_dot_text,
                   sim_rc, ss_rc, dep_rc, ss_render_input>>

\* if lc_txt.exists(): limitcycles_text = lc_txt.read_text()
ReadLimitCycles ==
    /\ apc = "limitcycles"
    /\ limitcycles_text' = IF Exists(LC_TXT) THEN tmpdir[LC_TXT] ELSE limitcycles_text
    /\ apc' = "dependency"
    /\ UNCHANGED <<rvars, dvars, simfds_exists, tmpdir, raw_dot, statespace_svg,
                   depgraph_svg, statespace_dot_text, sim_rc, ss_rc, dep_rc,
                   ss_render_input>>

\* dep_dot_src = build_dependency_dot(system_text);
\* if dep_dot_src: dep_dot.write_text(dep_dot_src)
BuildDependency ==
    /\ apc = "dependency"
    /\ dep_dot_src' = build_dependency_dot(system_text)
    /\ IF dep_dot_src' # <<>>
       THEN /\ tmpdir' = WriteText(tmpdir, DEP_DOT, dep_dot_src')
            /\ apc' = "render_dep"
       ELSE /\ tmpdir' = tmpdir
            /\ apc' = "return"
    /\ UNCHANGED <<rvars, system_text, dpc, simfds_exists, raw_dot,
                   statespace_svg, depgraph_svg, limitcycles_text,
                   statespace_dot_text, sim_rc, ss_rc, dep_rc, ss_render_input>>

\* run_command(["dot", "-Tsvg", "-o", dep_svg, dep_dot]);
\* if rc == 0 and dep_svg.exists(): depgraph_svg = dep_svg.read_text()
RenderDependency ==
    /\ apc = "render_dep"
    /\ \E rc \in {0, 1}, wsvg \in BOOLEAN :
          /\ tmpdir' = IF wsvg
                       THEN WriteText(tmpdir, DEP_SVG, RenderSvg(tmpdir[DEP_DOT]))
                       ELSE tmpdir
          /\ dep_rc' = <<rc>>
          /\ depgraph_svg' = IF rc = 0 /\ DEP_SVG \in DOMAIN tmpdir'
                             THEN tmpdir'[DEP_SVG]
                             ELSE depgraph_svg
    /\ apc' = "return"
    /\ UNCHANGED <<rvars, dvars, simfds_exists, raw_dot, statespace_svg,
                   limitcycles_text, statespace_dot_text, sim_rc, ss_rc,
                   ss_render_input>>

RenderDependencyCannotStart ==
    /\ apc = "render_dep"
    /\ apc' = "raised"
    /\ tmpdir' = <<>>
    /\ UNCHANGED <<rvars, dvars, simfds_exists, raw_dot, statespace_svg,
                   depgraph_svg, limitcycles_text, statespace_dot_text,
                   sim_rc, ss_rc, dep_rc, ss_render_input>>

\* the with block ends (the directory is removed) and the four texts are returned
Return ==
    /\ apc = "return"
    /\ apc' = "returned"
    /\ tmpdir' = <<>>
    /\ UNCHANGED <<rvars, dvars, simfds_exists, raw_dot, statespace_svg,
                   depgraph_svg, limitcycles_text, statespace_dot_text,
                   sim_rc, ss_rc, dep_rc, ss_render_input>>

NextArtifacts ==
    \/ WritePds
    \/ RunSimFDS
    \/ SkipSimFDS
    \/ ReorderStatespace
    \/ NoStatespace
    \/ RenderStatespace
    \/ RenderStatespaceCannotStart
    \/ ReadLimitCycles
    \/ BuildDependency
    \/ RenderDependency
    \/ RenderDependencyCannotStart
    \/ Return

SpecArtifacts == InitArtifacts /\ [][NextArtifacts]_vars

(***************************************************************************)
(* Properties of compute_system_artifacts                                  *)
(***************************************************************************)
\* C3: the text the rendering engine is given to draw the state graph is the
\* canonicalized description, not the raw one
C3_RendererGetsCanonicalText ==
    ss_rc # NotRun =>
        /\ ss_render_input = statespace_dot_text
        /\ ss_render_input = reorder_statespace_dot(raw_dot)

\* C5: after a non-zero exit code of the simulation engine or of the
\* renderer, or without the expected output file, the artifacts that depend
\* on that process are empty, and no failure reaches the caller
C5_DegradesToPlaceholders ==
    /\ sim_rc \notin {NotRun, <<0>>} =>
          /\ statespace_dot_text = <<>>
          /\ statespace_svg = <<>>
          /\ limitcycles_text = <<>>
    /\ ss_rc \notin {NotRun, <<0>>} => statespace_svg = <<>>
    /\ dep_rc \notin {NotRun, <<0>>} => depgraph_svg = <<>>
    /\ apc = "return" =>
          /\ ~Exists(SS_DOT) => statespace_dot_text = <<>> /\ statespace_svg = <<>>
          /\ ~Exists(SS_SVG) => statespace_svg = <<>>
          /\ ~Exists(LC_TXT) => limitcycles_text = <<>>
          /\ ~Exists(DEP_SVG) => depgraph_svg = <<>>
    /\ apc # "raised"

(***************************************************************************)
(* Properties of the canonicalizer                                         *)
(***************************************************************************)
Count(seq, x) == Len(SelectSeq(seq, LAMBDA y : y = x))
Range(seq) == { seq[i] : i \in 1..Len(seq) }

SameMultiset(a, b) ==
    \A x \in Range(a) \cup Range(b) : Count(a, x) = Count(b, x)

IsClosing(line) == strip(line) = <<"}">>
IsEdge(line) == edge_search(line)

InLines == splitlines(dot_source)
OutLines == splitlines(reordered)
InEdges == SelectSeq(InLines, IsEdge)
OutEdges == SelectSeq(OutLines, IsEdge)
InPrefix == SelectSeq(InLines, LAMBDA l : ~IsEdge(l) /\ ~IsClosing(l))
InClosing == SelectSeq(InLines, IsClosing)

\* the source label of an edge line: the text between the first quote that
\* opens an edge statement and the next quote
SourceLabel(line) ==
    LET starts == { i \in 1..Len(line) : EdgeMatchAt(line, i) }
        i == CHOOSE k \in starts : \A h \in starts : k <= h
        j == CHOOSE k \in (i + 1)..Len(line) :
                 line[k] = QUOTE /\ \A h \in (i + 1)..(k - 1) : line[h] # QUOTE
    IN  SubSeq(line, i + 1, j - 1)

Pow2(n) == IF n = 0 THEN 1 ELSE 2 ^ n

RECURSIVE SumOver(_, _)
SumOver(S, f) ==
    IF S = {} THEN 0
    ELSE LET x == CHOOSE y \in S : TRUE IN f[x] + SumOver(S \ {x}, f)

\* (Hamming weight, base-2 value) of the digits of a label
WeightValue(label) ==
    LET d == SelectSeq(label, LAMBDA c : c \in {"0", "1"})
        ones == { i \in 1..Len(d) : d[i] = "1" }
    IN  <<Cardinality(ones),
          SumOver(ones, [i \in 1..Len(d) |-> Pow2(Len(d) - i)])>>

SourceKey(line) == WeightValue(SourceLabel(line))

\* C1: the lines of the output are the same multiset as the lines of the
\* input, also when several lines are exactly a closing brace
C1_MultisetPreserved ==
    rpc # "start" => SameMultiset(OutLines, InLines)

\* C2: the edge lines of the output are in ascending order of (Hamming
\* weight, base-2 value) of their source label, and the edge lines of each
\* key are in the order they had in the input
C2_EdgesSortedStable ==
    rpc # "start" =>
        /\ \A i, j \in 1..Len(OutEdges) :
              i < j => TupleLeq(SourceKey(OutEdges[i]), SourceKey(OutEdges[j]))
        /\ \A k \in { SourceKey(l) : l \in Range(InEdges) \cup Range(OutEdges) } :
              SelectSeq(OutEdges, LAMBDA l : SourceKey(l) = k)
                = SelectSeq(InEdges, LAMBDA l : SourceKey(l) = k)

\* three edge lines, two of them different lines with one key, moved by the sort
C2_Witness ==
    /\ rpc = "once"
    /\ Len(InEdges) >= 3
    /\ OutEdges # InEdges
    /\ \E i, j \in 1..Len(InEdges) :
          /\ i < j
          /\ InEdges[i] # InEdges[j]
          /\ SourceKey(InEdges[i]) = SourceKey(InEdges[j])
    /\ \E i, j \in 1..Len(InEdges) :
          /\ SourceKey(InEdges[i])[1] < SourceKey(InEdges[j])[1]
          /\ SourceKey(InEdges[i])[2] > SourceKey(InEdges[j])[2]

\* C4 as stated: with no edge line in the input the result is the empty string
C4_EmptyWhenNoEdgeLine ==
    (rpc # "start" /\ InEdges = <<>>) => reordered = <<>>

\* C4 amended: with no edge line in the input the result is the non-closing
\* lines in their order followed by the last closing line if there is one,
\* and it is empty only when the input has no line or one empty line
C4_NoEdgeLineKeepsText ==
    (rpc # "start" /\ InEdges = <<>>) =>
        /\ reordered =
              join(InPrefix \o (IF InClosing = <<>> THEN <<>>
                                ELSE <<InClosing[Len(InClosing)]>>))
        /\ (reordered = <<>>) <=> (InLines \in {<<>>, << <<>> >>})

C4_Witness ==
    /\ rpc = "once"
    /\ InEdges = <<>>
    /\ InPrefix # <<>>
    /\ InClosing # <<>>
    /\ reordered # <<>>

\* C6: applying the canonicalizer to its own output gives the same output
C6_Idempotent ==
    rpc = "twice" => reordered2 = reordered

\* the orderings of a sequence
Perms(seq) ==
    { p \in [1..Len(seq) -> Range(seq)] : SameMultiset(p, seq) }

\* C7: the output text is the non-edge, non-closing lines in their original
\* order, then all the edge lines, then a closing line as the last line if
\* the input had one; without a closing line in the input the output has none
C7_Layout ==
    rpc # "start" =>
        /\ \E E \in Perms(InEdges) :
              \E C \in (IF InClosing = <<>> THEN {<<>>}
                        ELSE { <<c>> : c \in Range(InClosing) }) :
                  reordered = join(InPrefix \o E \o C)
        /\ InClosing # <<>> => IsClosing(OutLines[Len(OutLines)])
        /\ InClosing = <<>> => \A l \in Range(OutLines) : ~IsClosing(l)

\* a closing line and an edge line both stood before a prefix line
C7_Witness ==
    /\ rpc = "once"
    /\ \E i, j, k \in 1..Len(InLines) :
          /\ i < k /\ j < k
          /\ IsClosing(InLines[i])
          /\ IsEdge(InLines[j])
          /\ ~IsEdge(InLines[k]) /\ ~IsClosing(InLines[k])
    /\ reordered # dot_source

(***************************************************************************)
(* Properties of the dependency extractor                                  *)
(***************************************************************************)
\* a variable: "x" followed by one or more decimal digits
IsVariable(s) == Len(s) >= 2 /\ s[1] = "x" /\ \A i \in 2..Len(s) : s[i] \in Digits

\* the left-hand variables of a line: the line, trimmed, begins with the
\* variable, then blanks, then "="
LeftVars(l) ==
    LET s == strip(l)
    IN  { SubSeq(s, 1, j) : j \in { n \in 2..Len(s) :
              /\ IsVariable(SubSeq(s, 1, n))
              /\ \E k \in (n + 1)..Len(s) :
                    /\ s[k] = "="
                    /\ \A h \in (n + 1)..(k - 1) : s[h] = SPACE } }

\* a valid equation line: not blank, not a comment, begins with a variable
\* followed by "="
IsEquation(l) ==
    /\ strip(l) # <<>>
    /\ strip(l)[1] # "#"
    /\ LeftVars(l) # {}

\* the text after the first "=" of a line
RightSide(l) ==
    LET s == strip(l)
        k == CHOOSE n \in 1..Len(s) : s[n] = "=" /\ \A h \in 1..(n - 1) : s[h] # "="
    IN  SubSeq(s, k + 1, Len(s))

\* the variables referenced in a text: whole words that are variables
Referenced(r) ==
    { SubSeq(r, i, j) : <<i, j>> \in { w \in (1..Len(r)) \X (1..Len(r)) :
          /\ w[1] <= w[2]
          /\ IsVariable(SubSeq(r, w[1], w[2]))
          /\ (w[1] = 1 \/ ~IsWordChar(r[w[1] - 1]))
          /\ (w[2] = Len(r) \/ ~IsWordChar(r[w[2] + 1])) } }

Equations == SelectSeq(splitlines(system_text), IsEquation)
SkippedLines == SelectSeq(splitlines(system_text), LAMBDA l : ~IsEquation(l))

DepOutLines == splitlines(dep_dot_src)

IsEdgeDecl(l) == \E k \in 1..Len(l) : l[k] = "\" -> \""
IsNodeDecl(l) == \E k \in 1..Len(l) : l[k] = "\" [label=\""

\* the pair (u, v) of an emitted line   "u" -> "v";
EdgeOfDecl(l) ==
    LET k == CHOOSE n \in 1..Len(l) : l[n] = "\" -> \""
    IN  <<SubSeq(l, 2, k - 1), SubSeq(l, k + 1, Len(l) - 1)>>

\* the variable of an emitted line   "v" [label="..."];
NodeOfDecl(l) ==
    LET k == CHOOSE n \in 1..Len(l) : l[n] = "\" [label=\""
    IN  SubSeq(l, 2, k - 1)

EmittedEdgeDecls == SelectSeq(DepOutLines, IsEdgeDecl)
EmittedEdges == { EdgeOfDecl(l) : l \in Range(EmittedEdgeDecls) }
EmittedNodes == { NodeOfDecl(l) : l \in Range(SelectSeq(DepOutLines, IsNodeDecl)) }

\* C8: the emitted edges are exactly the pairs (t, v), t the left-hand
\* variable of a valid equation line and v # t referenced on its right-hand
\* side, each emitted once; no edge (v, v) is emitted
C8_EdgeSet ==
    dpc = "done" =>
        /\ EmittedEdges =
              { e \in UNION { LeftVars(l) \X Referenced(RightSide(l)) :
                              l \in Range(Equations) } : e[1] # e[2] }
        /\ Len(EmittedEdgeDecls) = Cardinality(EmittedEdges)
        /\ \A e \in EmittedEdges : e[1] # e[2]

\* an equation that references its own variable, one other variable twice,
\* and edges were emitted
C8_Witness ==
    /\ dpc = "done"
    /\ EmittedEdges # {}
    /\ \E l \in Range(Equations) :
          /\ LeftVars(l) \cap Referenced(RightSide(l)) # {}
          /\ \E v \in Referenced(RightSide(l)) \ LeftVars(l) :
                Len(SelectSeq(var_findall(RightSide(l)), LAMBDA w : w = v)) >= 2

\* C9: the emitted nodes are the left-hand variables and the referenced
\* variables of the valid equation lines, and nothing else
C9_NodeSet ==
    dpc = "done" =>
        EmittedNodes =
            UNION { LeftVars(l) \cup Referenced(RightSide(l)) : l \in Range(Equations) }

\* a node that is only referenced, and a skipped line naming a variable
\* that is not a node
C9_Witness ==
    /\ dpc = "done"
    /\ \E v \in EmittedNodes : \A l \in Range(Equations) : v \notin LeftVars(l)
    /\ \E l \in Range(SkippedLines) :
          \E v \in Referenced(l) : v \notin EmittedNodes

\* C10: with no valid equation line the result is the empty string
C10_EmptyWithoutEquations ==
    (dpc = "done" /\ Equations = <<>>) => dep_dot_src = <<>>

\* skipped lines that name variables, and an empty result
C10_Witness ==
    /\ dpc = "done"
    /\ Equations = <<>>
    /\ \E l \in Range(SkippedLines) : Referenced(l) # {} /\ \E k \in 1..Len(l) : l[k] = "="
    /\ dep_dot_src = <<>>

====
